---- MODULE Spec2Model ----
(***************************************************************************)
(* Embedding Similarity Playground (src/app.py).                           *)
(*                                                                         *)
(* The Streamlit script is modelled as a state machine over the session    *)
(* state (history, last) with one action per button press; the pure        *)
(* helpers preprocess and compute_similarity are operators, each with a    *)
(* specification of its own that draws the arguments from bounded sets.    *)
(*                                                                         *)
(* Texts are sequences of one-character strings.  Vectors carry their      *)
(* dimension and exact rational coordinates (integer numerators over one   *)
(* common denominator), so dot products and norms are computed exactly;    *)
(* float32 rounding is not modelled.                                       *)
(***************************************************************************)
EXTENDS Integers, Sequences, FiniteSets, TLC

VARIABLES
    history,     \* st.session_state.history: list of records, newest first
    last,        \* st.session_state.last: None or the latest full record
    pca,         \* what pca_history_plot_return_fig did in the latest script run
    status,      \* outcome of the latest button press
    calls,       \* provider calls made by the latest button press, in order
    req,         \* widget values read by the latest button press
    created,     \* every record ever inserted into history, oldest first
    presses,     \* number of button presses so far
    clock,       \* the wall clock read by time.strftime
    p_orig,      \* preprocess harness: the text drawn
    p_lower,     \* preprocess harness: the lowercase flag
    p_strip,     \* preprocess harness: the strip-punctuation flag
    p_text,      \* preprocess harness: the current text
    p_prev,      \* preprocess harness: the text before the latest application
    p_n,         \* preprocess harness: number of applications so far
    s_emb1,      \* compute_similarity harness: first vector
    s_emb2,      \* compute_similarity harness: second vector
    s_metric,    \* compute_similarity harness: metric identifier
    s_unit,      \* compute_similarity harness: already_unit
    s_out        \* compute_similarity harness: None before the call, then its outcome

sessionVars == <<history, last, pca, status, calls, req, created, presses, clock>>
preVars == <<p_orig, p_lower, p_strip, p_text, p_prev, p_n>>
simVars == <<s_emb1, s_emb2, s_metric, s_unit, s_out>>
vars == <<history, last, pca, status, calls, req, created, presses, clock,
          p_orig, p_lower, p_strip, p_text, p_prev, p_n,
          s_emb1, s_emb2, s_metric, s_unit, s_out>>

\* Python's None.
None == [kind |-> "None"]

Min(a, b) == IF a < b THEN a ELSE b

-----------------------------------------------------------------------------
(* Bounds of the model.                                                    *)

\* Longest text drawn for the preprocess harness.
MaxLen == 3
\* Button presses in a session of the wide specification.
MaxRuns == 2
\* Button presses in a session of the long-history specification.
MaxRunsLong == 52
\* Seconds the wall clock may advance during a long-history session.
MaxClock == 1

\* The capacity of the history: the slice [:50].
HistoryCap == 50

-----------------------------------------------------------------------------
(* Characters and texts.                                                   *)

\* The characters texts are built from: letters, the underscore (a word
\* character that is not a letter), punctuation and two kinds of whitespace.
Alphabet == {"a", "A", "_", ".", " ", "\t"}

\* \s of the re module, and what str.strip() removes.
IsSpace(c) == c \in {" ", "\t"}

\* \w of the re module.
IsWord(c) == c \in {"a", "A", "_"}

\* str.lower() on one character.
LowerChar(c) == IF c = "A" THEN "a" ELSE c

\* str.lower().
Lower(t) == [i \in 1..Len(t) |-> LowerChar(t[i])]

\* re.sub(r"[^\w\s]", " ", text)
PunctToSpace(t) ==
    [i \in 1..Len(t) |-> IF IsWord(t[i]) \/ IsSpace(t[i]) THEN t[i] ELSE " "]

RECURSIVE LStrip(_)
LStrip(t) ==
    IF t = <<>> THEN <<>>
    ELSE IF IsSpace(Head(t)) THEN LStrip(Tail(t))
    ELSE t

RECURSIVE RStrip(_)
RStrip(t) ==
    IF t = <<>> THEN <<>>
    ELSE IF IsSpace(t[Len(t)]) THEN RStrip(SubSeq(t, 1, Len(t) - 1))
    ELSE t

\* str.strip()
Strip(t) == RStrip(LStrip(t))

\* re.sub(r"\s+", " ", text): every maximal run of whitespace becomes one space.
RECURSIVE CollapseSpaces(_)
CollapseSpaces(t) ==
    IF t = <<>> THEN <<>>
    ELSE IF IsSpace(Head(t)) THEN <<" ">> \o CollapseSpaces(LStrip(Tail(t)))
    ELSE <<Head(t)>> \o CollapseSpaces(Tail(t))

\* A preprocess that trims before it replaces punctuation and collapses.
preprocessTrimFirst(text, lower, strip_punct) ==
    LET t1 == IF lower THEN Lower(text) ELSE text
    IN  IF strip_punct THEN CollapseSpaces(PunctToSpace(Strip(t1))) ELSE t1

\* preprocess(text, lower, strip_punct)
preprocess(text, lower, strip_punct) ==
    LET t1 == IF lower THEN Lower(text) ELSE text
    IN  IF strip_punct THEN Strip(CollapseSpaces(PunctToSpace(t1))) ELSE t1

\* `not text`: Python's truth test of a str is false for the empty string only.
IsFalsy(t) == t = <<>>

\* Empty or made of whitespace only (str.strip() == "").
IsBlank(t) == \A i \in 1..Len(t) : IsSpace(t[i])

\* All texts over the alphabet of length at most n.
RECURSIVE TextsUpTo(_)
TextsUpTo(n) ==
    IF n = 0 THEN {<<>>}
    ELSE LET shorter == TextsUpTo(n - 1)
         IN  shorter \cup {Append(t, c) : t \in shorter, c \in Alphabet}

-----------------------------------------------------------------------------
(* Vectors and the similarity engine.                                      *)

\* A vector of dimension dim whose coordinates are num[i]/den for
\* i <= Len(num) and 0 beyond.
Vec(dim, num, den) == [dim |-> dim, num |-> num, den |-> den]

Abs(n) == IF n < 0 THEN -n ELSE n

RECURSIVE Gcd(_, _)
Gcd(a, b) == IF b = 0 THEN a ELSE Gcd(b, a % b)

\* The rational n/d in lowest terms, d > 0.
Rat(n, d) ==
    LET g == Gcd(Abs(n), Abs(d))
        s == IF d < 0 THEN -1 ELSE 1
    IN  [n |-> (s * n) \div g, d |-> (s * d) \div g]

RECURSIVE SumProd(_, _)
SumProd(a, b) ==
    IF a = <<>> \/ b = <<>> THEN 0
    ELSE Head(a) * Head(b) + SumProd(Tail(a), Tail(b))

\* The square root of a perfect square.
IntSqrt(n) == CHOOSE r \in 0..n : r * r = n

\* np.dot(v1, v2) as a rational.
Dot(v1, v2) == Rat(SumProd(v1.num, v2.num), v1.den * v2.den)

\* _unit(v): v itself when its norm is 0, else v / norm.
\* (num/den) / (|num|/den) = num / |num|.
_unit(v) ==
    LET n2 == SumProd(v.num, v.num)
    IN  IF n2 = 0 THEN v ELSE Vec(v.dim, v.num, IntSqrt(n2))

\* The squared Euclidean distance of v1 and v2 as a rational.
Dist2(v1, v2) ==
    LET diff == [i \in 1..Len(v1.num) |-> v1.num[i] * v2.den - v2.num[i] * v1.den]
        d == v1.den * v2.den
    IN  Rat(SumProd(diff, diff), d * d)

\* A float result: kind "dot" is the number n/d, kind "eucl" is the number
\* 1 / (1 + sqrt(n/d)).
Float(kind, r) == [kind |-> kind, n |-> r.n, d |-> r.d]

\* raise ValueError("Unknown metric")
ValueError == [kind |-> "ValueError"]

\* euclidean_to_similarity(v1, v2)
euclidean_to_similarity(v1, v2) == Float("eucl", Dist2(v1, v2))

\* A compute_similarity whose last branch falls back to the cosine.
compute_similarityDefaulting(emb1, emb2, metric, already_unit) ==
    LET v1 == IF already_unit THEN emb1 ELSE _unit(emb1)
        v2 == IF already_unit THEN emb2 ELSE _unit(emb2)
    IN  IF metric = "Dot product" THEN Float("dot", Dot(v1, v2))
        ELSE IF metric = "Euclidean→similarity" THEN euclidean_to_similarity(v1, v2)
        ELSE Float("dot", Dot(v1, v2))

\* compute_similarity(emb1, emb2, metric, already_unit): a Float, or ValueError.
compute_similarity(emb1, emb2, metric, already_unit) ==
    LET v1 == IF already_unit THEN emb1 ELSE _unit(emb1)
        v2 == IF already_unit THEN emb2 ELSE _unit(emb2)
    IN  IF metric = "Cosine" THEN Float("dot", Dot(v1, v2))
        ELSE IF metric = "Dot product" THEN Float("dot", Dot(v1, v2))
        ELSE IF metric = "Euclidean→similarity" THEN euclidean_to_similarity(v1, v2)
        ELSE ValueError

-----------------------------------------------------------------------------
(* The external collaborators: the embedding models and the extractor.     *)

MiniLM == "sentence-transformers/all-MiniLM-L6-v2"
Mpnet == "sentence-transformers/all-mpnet-base-v2"

\* The options of the "Embedding model" selectbox.
ModelNames == {MiniLM, Mpnet}

\* The options of the "Similarity metric" selectbox.
MetricNames == {"Cosine", "Dot product", "Euclidean→similarity"}

\* The length of the vectors SentenceTransformer(selected_model) produces:
\* 384 for all-MiniLM-L6-v2 and 768 for all-mpnet-base-v2.
EmbeddingDim(model) == IF model = MiniLM THEN 384 ELSE 768

\* The unit directions the modelled embedders produce.
UnitDirections == << <<1, 0, 1>>, <<0, 1, 1>>, <<3, 4, 5>> >>

CharCode(c) ==
    IF c = "a" THEN 1 ELSE IF c = "A" THEN 2 ELSE IF c = "_" THEN 3
    ELSE IF c = "." THEN 4 ELSE IF c = " " THEN 5 ELSE IF c = ";" THEN 6 ELSE 7

RECURSIVE TextCode(_)
TextCode(t) == IF t = <<>> THEN 0 ELSE CharCode(Head(t)) + TextCode(Tail(t))

\* embedder.encode(text, normalize_embeddings=True) of the embedder loaded for
\* `model`: a fixed function of the model and the text, yielding a unit vector
\* of the model's dimension.
encode(model, text) ==
    LET k == ((TextCode(text) + (IF model = MiniLM THEN 0 ELSE 1)) % 3) + 1
        u == UnitDirections[k]
    IN  Vec(EmbeddingDim(model), <<u[1], u[2]>>, u[3])

\* What extract_keywords_kwbert may return: ranked (phrase, score) pairs,
\* possibly none.
KeywordLists == { <<>>, << <<(<<"a">>), 2>>, <<(<<"_", "a">>), 1>> >> }

\* " ; ".join([k for k, s in kws])
RECURSIVE JoinPhrases(_)
JoinPhrases(kws) ==
    IF kws = <<>> THEN <<>>
    ELSE IF Len(kws) = 1 THEN kws[1][1]
    ELSE kws[1][1] \o <<" ", ";", " ">> \o JoinPhrases(Tail(kws))

\* A surrogate with no fallback to the preprocessed text.
SurrogateTextNoFallback(text_kw, p_text0) == text_kw

\* text_kw or p_text: the text embedded for the keyword-only vector.
SurrogateText(text_kw, p_text0) == IF IsFalsy(text_kw) THEN p_text0 ELSE text_kw

-----------------------------------------------------------------------------
(* The run block: if run: ... (one button press).                          *)

Call(fn, model, text) == [fn |-> fn, model |-> model, text |-> text]

\* Keyword fields where a vector is kept only when its phrase list is non-empty.
KeywordFieldsPartial(enable_kw, kws_scraped, kws_query, v_skw, v_qkw, sim) ==
    IF enable_kw
    THEN [kw_sim |-> sim, kw_scraped |-> kws_scraped, kw_query |-> kws_query,
          v_scraped_kw |-> IF kws_scraped = <<>> THEN None ELSE v_skw,
          v_query_kw |-> IF kws_query = <<>> THEN None ELSE v_qkw]
    ELSE [kw_sim |-> None, kw_scraped |-> <<>>, kw_query |-> <<>>,
          v_scraped_kw |-> None, v_query_kw |-> None]

\* The keyword variables after the optional keyword phase: their defaults,
\* overwritten together when enable_kw is set.
KeywordFields(enable_kw, kws_scraped, kws_query, v_skw, v_qkw, sim) ==
    IF enable_kw
    THEN [kw_sim |-> sim, kw_scraped |-> kws_scraped, kw_query |-> kws_query,
          v_scraped_kw |-> v_skw, v_query_kw |-> v_qkw]
    ELSE [kw_sim |-> None, kw_scraped |-> <<>>, kw_query |-> <<>>,
          v_scraped_kw |-> None, v_query_kw |-> None]

\* The dict assigned to st.session_state.last.
LastRecord(w, now, p_s, p_q, full_sim, v_s, v_q, k) ==
    [time |-> now, model |-> w.model_name, metric |-> w.metric,
     scraped |-> w.scraped, query |-> w.query,
     p_scraped |-> p_s, p_query |-> p_q,
     full_sim |-> full_sim, kw_sim |-> k.kw_sim,
     kw_scraped |-> k.kw_scraped, kw_query |-> k.kw_query,
     v_scraped |-> v_s, v_query |-> v_q,
     v_scraped_kw |-> k.v_scraped_kw, v_query_kw |-> k.v_query_kw]

\* The dict inserted into st.session_state.history, built from last.
HistoryRecord(w, l, full_sim, kw_sim) ==
    [time |-> l.time, model |-> w.model_name, metric |-> w.metric,
     scraped |-> w.scraped, query |-> w.query,
     full_sim |-> full_sim, kw_sim |-> kw_sim,
     v_scraped |-> l.v_scraped, v_query |-> l.v_query,
     v_scraped_kw |-> l.v_scraped_kw, v_query_kw |-> l.v_query_kw]

\* A history update that appends the record instead of prepending it.
HistoryInsertAtEnd(h, rec) ==
    SubSeq(h \o <<rec>>, 1, Min(Len(h) + 1, HistoryCap))

\* history.insert(0, rec); history = history[:50]
HistoryInsert(h, rec) ==
    SubSeq(<<rec>> \o h, 1, Min(Len(h) + 1, HistoryCap))

\* A run block that stores the full-sentence result in last before the
\* keyword phase.
StateAtRaiseEarlySave(h, l, inKeywordPhase, partial) ==
    [history |-> h, last |-> IF inKeywordPhase THEN partial ELSE l]

\* The session state when a step of the run block raises: nothing has been
\* assigned to st.session_state yet.
StateAtRaise(h, l, inKeywordPhase, partial) ==
    [history |-> h, last |-> l]

\* The places where a provider may raise: 0 is nowhere, k > 0 is the k-th
\* provider call of the run block (load_models, encode x2, extract x2, encode x2).
FailPoints == 0..7

\* One execution of the run block from session state (h, l), with widget
\* values w and the environment e (the clock, what the extractor returns,
\* where a provider raises).
RunBlock(h, l, w, e) ==
    LET m == w.model_name
        p_s == preprocess(w.scraped, w.do_lower, w.do_strip)
        p_q == preprocess(w.query, w.do_lower, w.do_strip)
        v_s == encode(m, p_s)
        v_q == encode(m, p_q)
        full_sim == compute_similarity(v_s, v_q, w.metric, TRUE)
        sur_s == SurrogateText(JoinPhrases(e.kw_scraped), p_s)
        sur_q == SurrogateText(JoinPhrases(e.kw_query), p_q)
        v_skw == encode(m, sur_s)
        v_qkw == encode(m, sur_q)
        kw_sim == compute_similarity(v_skw, v_qkw, w.metric, TRUE)
        fullCalls == <<Call("load_models", m, <<>>),
                       Call("encode", m, p_s), Call("encode", m, p_q)>>
        kwCalls == <<Call("extract_keywords", m, p_s),
                     Call("extract_keywords", m, p_q),
                     Call("encode", m, sur_s), Call("encode", m, sur_q)>>
        allCalls == fullCalls \o (IF w.enable_kw THEN kwCalls ELSE <<>>)
        k == KeywordFields(w.enable_kw, e.kw_scraped, e.kw_query, v_skw, v_qkw, kw_sim)
        noKw == KeywordFields(FALSE, <<>>, <<>>, None, None, None)
        partial == LastRecord(w, e.now, p_s, p_q, full_sim, v_s, v_q, noKw)
        newLast == LastRecord(w, e.now, p_s, p_q, full_sim, v_s, v_q, k)
        rec == HistoryRecord(w, newLast, full_sim, k.kw_sim)
        Raised(n, inKeywordPhase) ==
            LET s == StateAtRaise(h, l, inKeywordPhase, partial)
            IN  [history |-> s.history, last |-> s.last, status |-> "failed",
                 calls |-> SubSeq(allCalls, 1, n), rec |-> None]
    IN  IF IsFalsy(w.scraped) \/ IsFalsy(w.query)
        THEN [history |-> h, last |-> l, status |-> "rejected",
              calls |-> <<>>, rec |-> None]
        ELSE IF e.fail \in 1..3 THEN Raised(e.fail, FALSE)
        ELSE IF full_sim = ValueError THEN Raised(3, FALSE)
        ELSE IF w.enable_kw /\ e.fail \in 4..7 THEN Raised(e.fail, TRUE)
        ELSE IF w.enable_kw /\ kw_sim = ValueError THEN Raised(7, TRUE)
        ELSE [history |-> HistoryInsert(h, rec), last |-> newLast,
              status |-> "ok", calls |-> allCalls, rec |-> rec]

-----------------------------------------------------------------------------
(* The history map.                                                        *)

Point(kind, h, v) == [kind |-> kind, time |-> h.time, v |-> v]

\* The loop that pools the vectors of the history, in order.
RECURSIVE PoolPoints(_)
PoolPoints(hs) ==
    IF hs = <<>> THEN <<>>
    ELSE LET h == Head(hs)
             full == <<Point("scraped", h, h.v_scraped), Point("query", h, h.v_query)>>
             kw == IF h.v_scraped_kw # None /\ h.v_query_kw # None
                   THEN <<Point("scraped_kw", h, h.v_scraped_kw),
                          Point("query_kw", h, h.v_query_kw)>>
                   ELSE <<>>
         IN  (IF h.v_scraped = None \/ h.v_query = None THEN <<>> ELSE full \o kw)
             \o PoolPoints(Tail(hs))

\* np.vstack(points) succeeds only for rows of one length.
CanStack(points) ==
    \A i \in 1..Len(points) : points[i].v.dim = points[1].v.dim

\* pca_history_plot_return_fig(history): None below 3 points, ValueError when
\* np.vstack raises, else a figure with one scattered (x, y) per row of XY,
\* row i of XY being the projection of points[i] and drawn with labels[i].
\* The coordinates themselves are not modelled.
pca_history_plot_return_fig(hs) ==
    LET points == PoolPoints(hs)
    IN  IF Len(points) < 3 THEN None
        ELSE IF ~CanStack(points) THEN ValueError
        ELSE [kind |-> "fig",
              xy |-> [i \in 1..Len(points) |->
                         [kind |-> points[i].kind, time |-> points[i].time]]]

\* The script stopped at an exception before it reached the history map.
NotRendered == [kind |-> "not rendered"]

-----------------------------------------------------------------------------
(* The session: one action per button press.                               *)

Widgets(scrapedTexts, queryTexts, models, metrics, lowers, strips, kws) ==
    [scraped : scrapedTexts, query : queryTexts, model_name : models,
     metric : metrics, do_lower : lowers, do_strip : strips, enable_kw : kws]

Environments(keywordLists, failPoints) ==
    [kw_scraped : keywordLists, kw_query : keywordLists, fail : failPoints]

\* The widget values of the first script run: the defaults, both text areas empty.
DefaultWidgets ==
    [scraped |-> <<>>, query |-> <<>>, model_name |-> MiniLM, metric |-> "Cosine",
     do_lower |-> TRUE, do_strip |-> FALSE, enable_kw |-> TRUE]

\* One script run with the button pressed: the run block, then, unless it
\* raised, the history map over the updated history.
ClickRun(W, E, maxRuns) ==
    /\ presses < maxRuns
    /\ presses' = presses + 1
    /\ \E w \in W, e \in E :
         LET r == RunBlock(history, last, w,
                           [kw_scraped |-> e.kw_scraped, kw_query |-> e.kw_query,
                            fail |-> e.fail, now |-> clock])
         IN  /\ history' = r.history
             /\ last' = r.last
             /\ status' = r.status
             /\ calls' = r.calls
             /\ req' = w
             /\ created' = IF r.status = "ok" THEN Append(created, r.rec) ELSE created
             /\ pca' = IF r.status = "failed" THEN NotRendered
                       ELSE pca_history_plot_return_fig(r.history)
    /\ UNCHANGED <<clock, preVars, simVars>>

\* A second passes on the wall clock.
Tick ==
    /\ clock < MaxClock
    /\ clock' = clock + 1
    /\ UNCHANGED <<history, last, pca, status, calls, req, created, presses,
                   preVars, simVars>>

InitPreIdle ==
    /\ p_orig = <<>> /\ p_lower = FALSE /\ p_strip = FALSE
    /\ p_text = <<>> /\ p_prev = <<>> /\ p_n = 0

InitSimIdle ==
    /\ s_emb1 = None /\ s_emb2 = None /\ s_metric = "Cosine"
    /\ s_unit = TRUE /\ s_out = None

\* The session after the first script run: nothing stored, no history map.
InitSession ==
    /\ history = <<>>
    /\ last = None
    /\ pca = pca_history_plot_return_fig(<<>>)
    /\ status = "idle"
    /\ calls = <<>>
    /\ req = DefaultWidgets
    /\ created = <<>>
    /\ presses = 0
    /\ clock = 0

Init == InitSession /\ InitPreIdle /\ InitSimIdle

\* The texts typed in sessions of the wide specification: empty, whitespace
\* only, and texts with letters.
ScrapedTexts == {<<>>, <<" ">>, <<"A", ".">>}
QueryTexts == {<<>>, <<"\t">>, <<"a">>}

\* A button press with any of the texts, under either preprocessing.
RunTexts ==
    ClickRun(Widgets(ScrapedTexts, QueryTexts, {MiniLM}, {"Cosine"},
                     {TRUE}, BOOLEAN, BOOLEAN),
             Environments({<<>>}, {0}), MaxRuns)

\* A button press with any of the models, metrics and keyword settings, the
\* extractor returning phrases or none for either text.
RunSettings ==
    ClickRun(Widgets({<<"A", ".">>}, {<<"a">>}, ModelNames, MetricNames,
                     {TRUE}, {FALSE}, BOOLEAN),
             Environments(KeywordLists, {0}), MaxRuns)

\* A button press during which a provider raises.
RunFailing ==
    ClickRun(Widgets({<<"A", ".">>}, {<<"a">>}, ModelNames, {"Cosine"},
                     {TRUE}, {FALSE}, BOOLEAN),
             Environments({<<>>}, FailPoints \ {0}), MaxRuns)

Next == RunTexts \/ RunSettings \/ RunFailing

Spec == Init /\ [][Next]_vars

\* Long sessions: one fixed pair of texts and settings, no provider failure,
\* many button presses while the clock advances.
RunLong ==
    ClickRun(Widgets({<<"a", " ", "A">>}, {<<"a">>}, {MiniLM}, {"Cosine"},
                     {TRUE}, {FALSE}, {TRUE}),
             Environments({<<>>}, {0}), MaxRunsLong)

NextLong == RunLong \/ Tick

SpecLong == Init /\ [][NextLong]_vars

-----------------------------------------------------------------------------
(* preprocess, applied repeatedly to a drawn text.                         *)

InitPre ==
    /\ InitSession /\ InitSimIdle
    /\ p_orig \in TextsUpTo(MaxLen)
    /\ p_lower \in BOOLEAN
    /\ p_strip \in BOOLEAN
    /\ p_text = p_orig
    /\ p_prev = p_orig
    /\ p_n = 0

ApplyPreprocess ==
    /\ p_n < 2
    /\ p_text' = preprocess(p_text, p_lower, p_strip)
    /\ p_prev' = p_text
    /\ p_n' = p_n + 1
    /\ UNCHANGED <<p_orig, p_lower, p_strip, sessionVars, simVars>>

NextPre == ApplyPreprocess

SpecPre == InitPre /\ [][NextPre]_vars

-----------------------------------------------------------------------------
(* compute_similarity, called once on drawn arguments.                     *)

\* Two-dimensional vectors with an integer norm: zero, unit and non-unit.
SimVectors ==
    {Vec(2, n, 1) : n \in {<<0, 0>>, <<1, 0>>, <<0, 1>>, <<2, 0>>, <<0, -2>>,
                          <<3, 4>>, <<-4, 3>>}}
    \cup {Vec(2, <<3, 4>>, 5)}

\* The three metrics of the selectbox and identifiers outside it.
SimMetrics == MetricNames \cup {"Bogus", "cosine", "", "Euclidean"}

InitSim ==
    /\ InitSession /\ InitPreIdle
    /\ s_emb1 \in SimVectors
    /\ s_emb2 \in SimVectors
    /\ s_metric \in SimMetrics
    /\ s_unit \in BOOLEAN
    /\ s_out = None

CallSimilarity ==
    /\ s_out = None
    /\ s_out' = compute_similarity(s_emb1, s_emb2, s_metric, s_unit)
    /\ UNCHANGED <<s_emb1, s_emb2, s_metric, s_unit, sessionVars, preVars>>

NextSim == CallSimilarity

SpecSim == InitSim /\ [][NextSim]_vars

-----------------------------------------------------------------------------
(* Properties.                                                             *)

\* C1: after n successful runs the history holds exactly the min(n, 50) most
\* recently inserted records, newest first: history[i] is the i-th newest
\* record ever inserted, so the latest is at index 1, the order of the
\* survivors is kept and the records dropped are the oldest.
C1_HistoryHoldsNewest ==
    LET n == Len(created)
    IN  /\ Len(history) = Min(n, HistoryCap)
        /\ \A i \in 1..Len(history) : history[i] = created[n - i + 1]

\* More than 50 runs were made, at different times, and records were dropped.
C1_Witness ==
    /\ Len(created) > HistoryCap
    /\ Len(history) = HistoryCap
    /\ history[1].time # history[HistoryCap].time
    /\ created[1] # history[1]

\* C2: a button press with an empty or whitespace-only scraped or query text
\* is rejected: no provider is called, no record is created and the history
\* is unchanged.
C2_BlankInputRejected ==
    [][(presses' # presses /\ (IsBlank(req'.scraped) \/ IsBlank(req'.query)))
         => /\ status' = "rejected"
            /\ calls' = <<>>
            /\ created' = created
            /\ history' = history
            /\ last' = last]_vars

\* C3: a run in which a step raises after the input check leaves the history
\* and the stored last result exactly as they were before the run.
C3_FailedRunChangesNothing ==
    [][(presses' # presses /\ status' = "failed")
         => (history' = history /\ last' = last)]_vars

\* A provider raised in the keyword phase of a run made after a successful one.
C3_Witness ==
    /\ status = "failed"
    /\ Len(calls) > 3
    /\ history # <<>>
    /\ last # None

KeywordFieldsJoint(r) ==
    \/ r.kw_sim = None /\ r.v_scraped_kw = None /\ r.v_query_kw = None
    \/ r.kw_sim # None /\ r.v_scraped_kw # None /\ r.v_query_kw # None

\* C4: in the last result and in every history entry, the keyword-only score
\* and the two keyword-only vectors are all present or all absent.
C4_KeywordFieldsJoint ==
    /\ last # None => KeywordFieldsJoint(last)
    /\ \A i \in 1..Len(history) : KeywordFieldsJoint(history[i])

\* Keyword extraction was on for one run, with no phrase found for the query,
\* and off for the next.
C4_Witness ==
    /\ Len(history) = 2
    /\ history[1].kw_sim = None
    /\ history[2].kw_sim # None
    /\ last.kw_sim = None
    /\ req.enable_kw = FALSE

\* C5: after a successful run with keyword extraction enabled, for each side
\* whose extracted phrase list is empty the text embedded for the keyword-only
\* vector is the preprocessed text of that side, and the keyword-only
\* similarity is present and is the similarity of the two keyword-only vectors.
C5_EmptyKeywordsFallBack ==
    (status = "ok" /\ req.enable_kw) =>
        /\ last.kw_scraped = <<>> =>
              /\ calls[6] = Call("encode", last.model, last.p_scraped)
              /\ last.v_scraped_kw = encode(last.model, last.p_scraped)
        /\ last.kw_query = <<>> =>
              /\ calls[7] = Call("encode", last.model, last.p_query)
              /\ last.v_query_kw = encode(last.model, last.p_query)
        /\ (last.kw_scraped = <<>> \/ last.kw_query = <<>>) =>
              /\ last.kw_sim # None
              /\ last.kw_sim =
                   compute_similarity(encode(last.model, calls[6].text),
                                      encode(last.model, calls[7].text),
                                      last.metric, TRUE)
              /\ history[1].kw_sim = last.kw_sim

\* The extractor found nothing for the scraped text and phrases for the query.
C5_Witness ==
    /\ status = "ok"
    /\ req.enable_kw
    /\ last.kw_scraped = <<>>
    /\ last.kw_query # <<>>
    /\ last.p_scraped # <<>>
    /\ calls[6].text = last.p_scraped
    /\ last.kw_sim # None

\* C6: for every metric identifier other than the three enumerated ones,
\* compute_similarity raises, whatever already_unit and the vectors are.
C6_UnknownMetricRaises ==
    (s_out # None /\ s_metric \notin {"Cosine", "Dot product", "Euclidean→similarity"})
        => s_out = ValueError

\* An unknown metric was passed with already_unit false, and the call raised.
C6_Witness ==
    /\ s_out = ValueError
    /\ s_metric = "Bogus"
    /\ s_unit = FALSE
    /\ s_emb1 # s_emb2

\* C7: whenever the history map is computed, it is absent when fewer than 3
\* vectors are pooled from the history, and otherwise a projection with one
\* coordinate pair per pooled vector, in pooling order.
C7_ProjectionTotal ==
    status # "failed" =>
        LET points == PoolPoints(history)
        IN  IF Len(points) < 3 THEN pca = None
            ELSE /\ pca.kind = "fig"
                 /\ Len(pca.xy) = Len(points)
                 /\ \A i \in 1..Len(points) :
                       /\ pca.xy[i].kind = points[i].kind
                       /\ pca.xy[i].time = points[i].time

\* C8: under "Dot product" compute_similarity returns the dot product of the
\* vectors exactly as given, for both values of already_unit.
C8_DotProductIsRaw ==
    (s_out # None /\ s_metric = "Dot product")
        => s_out = Float("dot", Dot(s_emb1, s_emb2))

\* C9: preprocess is idempotent under every combination of the two flags, and
\* maps the empty string to the empty string.
C9_PreprocessIdempotent ==
    /\ p_n = 2 => p_text = p_prev
    /\ (p_n > 0 /\ p_orig = <<>>) => p_text = <<>>

\* A text that both flags change was preprocessed twice.
C9_Witness ==
    /\ p_n = 2
    /\ p_lower /\ p_strip
    /\ p_orig = <<".", "A", "\t">>
    /\ p_text = <<"a">>

HistoryVectors ==
    UNION {{history[i].v_scraped, history[i].v_query,
            history[i].v_scraped_kw, history[i].v_query_kw} \ {None}
           : i \in 1..Len(history)}

\* C10: all the vectors stored in the history have one common dimension.
C10_OneDimension ==
    \A u, v \in HistoryVectors : u.dim = v.dim

====
